---------------------------- MODULE Spec2Model ----------------------------
(***************************************************************************)
(* A model of the phrase splitter of asr-server (lib/phraseSplitter):      *)
(* splitIntoPhrases, formatPhrasesWithSpacing, splitTranscriptIntoPhrases  *)
(* and getPhraseStats.  A JavaScript string is a sequence of characters,   *)
(* each character a one-character TLA+ string; the four curly quotes are   *)
(* the characters named LDQ (U+201C), RDQ (U+201D), LSQ (U+2018) and RSQ   *)
(* (U+2019).  A call is a frame holding the local variables of the         *)
(* function; the scan loop advances one iteration per step.                *)
(* The module also models the in-memory rate limiter of the API routes     *)
(* /api/v1/asr and /api/v1/transcribe-direct, and a WebSocket connection of  *)
(* the streaming server (server-whisper.mjs).                              *)
(***************************************************************************)
EXTENDS Integers, Sequences, FiniteSets, TLC

VARIABLES
    calls,          \* the calls of the phrase splitter, one frame per slot
    now,            \* Date.now() of the API server, in milliseconds
    rateLimitStore, \* the rateLimitStore Map of each API route module
    response,       \* the last request handled and the status answered
    conn            \* a WebSocket connection of the streaming server

splitterVars == <<calls>>
rateVars == <<now, rateLimitStore, response>>
streamVars == <<conn>>
vars == <<calls, now, rateLimitStore, response, conn>>

---------------------------------------------------------------------------
(* Bounds of the model *)

\* longest transcript over Alphabet given to splitIntoPhrases
MaxLen == 4
\* longest transcript over Alphabet given to the two derived functions
MaxDerivedLen == 3
\* longest transcript over CoreAlphabet
MaxCoreLen == 5
\* number of calls that can be in progress at once
NumSlots == 2
\* the value of ASR_RATE_LIMIT_PER_MINUTE in the environment of the server
RateLimitEnv == 2
\* number of times the clock of the server advances
MaxTicks == 2

\* longest transcript over Alphabet in the runs that check termination
MaxTermLen == 3

\* longest transcript of the calls compared up to whitespace
MaxNormLen == 3

\* longest transcript over Alphabet that is formatted and split again
MaxResplitLen == 3

\* most audio chunks a connection of the streaming server receives between
\* two resets
MaxChunks == 15
\* most reset messages a connection of the streaming server receives
MaxResets == 1

Slots == 1..NumSlots

---------------------------------------------------------------------------
(* Characters *)

SP == " "
NL == "\n"
DQ == "\""
SQ == "'"
LDQ == "LDQ"
RDQ == "RDQ"
LSQ == "LSQ"
RSQ == "RSQ"

\* normalizedText[i] past the end of the string, and the initial quoteChar
Undefined == "undefined"
Null == "null"
\* let nextNonSpace = ''
EmptyChar == ""

\* /\s/
IsSpace(c) == c \in {" ", "\n", "\t", "\r"}

\* /[A-Z]/
IsUpper(c) ==
    c \in {"A", "B", "C", "D", "E", "F", "G", "H", "I", "J", "K", "L", "M",
           "N", "O", "P", "Q", "R", "S", "T", "U", "V", "W", "X", "Y", "Z"}

quoteChars == <<DQ, SQ, LDQ, RDQ, LSQ, RSQ>>
openQuotes == <<DQ, SQ, LDQ, LSQ>>
closeQuotes == <<DQ, SQ, RDQ, RSQ>>

Range(s) == {s[k] : k \in 1..Len(s)}

\* quoteChars.includes(char)
IsQuoteChar(char) == char \in Range(quoteChars)

\* openQuotes.indexOf(openChar), 0-based, -1 when absent
IndexOf(arr, x) ==
    IF x \in Range(arr)
    THEN (CHOOSE k \in 1..Len(arr) :
              arr[k] = x /\ \A m \in 1..(k - 1) : arr[m] # x) - 1
    ELSE -1

\* the closing character taken to be the opening character itself
GetMatchingCloseQuoteSameChar(openChar) == openChar

GetMatchingCloseQuote(openChar) ==
    LET index == IndexOf(openQuotes, openChar)
    IN  IF index # -1 THEN closeQuotes[index + 1] ELSE openChar

\* !nextChar
Falsy(c) == c = Undefined \/ c = EmptyChar

\* the sentence end recognized whatever the next character is
IsSentenceEndAnyNext(char, nextChar) == char \in {".", "!", "?"}

IsSentenceEnd(char, nextChar) ==
    /\ char \in {".", "!", "?"}
    /\ (Falsy(nextChar) \/ IsSpace(nextChar) \/ IsQuoteChar(nextChar))

---------------------------------------------------------------------------
(* Strings *)

\* s[i] of JavaScript, i counted from 0
CharAt(s, i) == IF i >= 0 /\ i < Len(s) THEN s[i + 1] ELSE Undefined

SetMin(S) == CHOOSE x \in S : \A y \in S : x <= y
SetMax(S) == CHOOSE x \in S : \A y \in S : x >= y

\* String.prototype.trim
Trim(s) ==
    LET keep == {k \in 1..Len(s) : ~IsSpace(s[k])}
    IN  IF keep = {} THEN <<>> ELSE SubSeq(s, SetMin(keep), SetMax(keep))

\* s.replace(/\s+/g, ' ')
RECURSIVE CollapseFrom(_, _)
CollapseFrom(s, k) ==
    IF k > Len(s) THEN <<>>
    ELSE IF IsSpace(s[k])
         THEN IF k > 1 /\ IsSpace(s[k - 1])
              THEN CollapseFrom(s, k + 1)
              ELSE <<" ">> \o CollapseFrom(s, k + 1)
         ELSE <<s[k]>> \o CollapseFrom(s, k + 1)

CollapseSpaces(s) == CollapseFrom(s, 1)

\* the normalization that trims and leaves the inner whitespace as it is
NormalizeTrimOnly(text) == Trim(text)

\* text.trim().replace(/\s+/g, ' ')
Normalize(text) == CollapseSpaces(Trim(text))

\* s.endsWith(c)
EndsWith(s, c) == Len(s) > 0 /\ s[Len(s)] = c

\* s.slice(0, -1)
DropLast(s) == IF Len(s) = 0 THEN <<>> ELSE SubSeq(s, 1, Len(s) - 1)

\* arr.join(sep)
RECURSIVE Join(_, _)
Join(arr, sep) ==
    IF Len(arr) = 0 THEN <<>>
    ELSE IF Len(arr) = 1 THEN arr[1]
    ELSE arr[1] \o sep \o Join(Tail(arr), sep)

\* s.split(/\s+/): the pieces of s between its runs of whitespace
RECURSIVE SplitFrom(_, _, _)
SplitFrom(s, k, piece) ==
    IF k > Len(s) THEN <<piece>>
    ELSE IF IsSpace(s[k])
         THEN IF k > 1 /\ IsSpace(s[k - 1])
              THEN SplitFrom(s, k + 1, piece)
              ELSE <<piece>> \o SplitFrom(s, k + 1, <<>>)
         ELSE SplitFrom(s, k + 1, Append(piece, s[k]))

SplitOnWhitespace(s) == SplitFrom(s, 1, <<>>)

---------------------------------------------------------------------------
(* JavaScript values passed as the transcript *)

JsString(s) == [type |-> "string", str |-> s, num |-> 0]
JsNumber(n) == [type |-> "number", str |-> <<>>, num |-> n]
JsNull == [type |-> "null", str |-> <<>>, num |-> 0]
JsUndefined == [type |-> "undefined", str |-> <<>>, num |-> 0]

\* !text
IsFalsy(v) ==
    \/ v.type \in {"null", "undefined"}
    \/ v.type = "number" /\ v.num = 0
    \/ v.type = "string" /\ Len(v.str) = 0

---------------------------------------------------------------------------
(* The frame of one call: the called function, its argument, the locals   *)
(* of splitIntoPhrases and what the called function returned              *)

IdleFrame ==
    [fn |-> "none", transcript |-> JsUndefined, pc |-> "idle",
     normalizedText |-> <<>>, i |-> 0, currentPhrase |-> <<>>,
     inQuotes |-> FALSE, quoteChar |-> Null, afterColon |-> FALSE,
     phrases |-> <<>>, formatted |-> <<>>,
     phraseCount |-> 0, totalWords |-> 0, avgWordsPerPhrase |-> 0]

\* where control goes when splitIntoPhrases returns
ReturnPc(fn) == IF fn = "splitIntoPhrases" THEN "done" ELSE "returned"

\* the entry guarded by `!text` alone: a truthy non-string reaches
\* text.trim, which throws
EnterSplitFalsyGuardOnly(prev, fn, text) ==
    IF IsFalsy(text)
    THEN [IdleFrame EXCEPT !.fn = fn, !.transcript = text,
                           !.pc = ReturnPc(fn)]
    ELSE IF text.type # "string"
    THEN [IdleFrame EXCEPT !.fn = fn, !.transcript = text, !.pc = "threw"]
    ELSE [IdleFrame EXCEPT !.fn = fn, !.transcript = text, !.pc = "scan",
                           !.normalizedText = Normalize(text.str)]

\* the entry with the phrases array kept from the call before
EnterSplitKeepsPhrases(prev, fn, text) ==
    IF IsFalsy(text) \/ text.type # "string"
    THEN [IdleFrame EXCEPT !.fn = fn, !.transcript = text,
                           !.pc = ReturnPc(fn)]
    ELSE [IdleFrame EXCEPT !.fn = fn, !.transcript = text, !.pc = "scan",
                           !.normalizedText = Normalize(text.str),
                           !.phrases = prev.phrases]

\* entry of splitIntoPhrases(text): the guard, the normalization and the
\* declarations of the locals; prev is the frame the slot held before
EnterSplit(prev, fn, text) ==
    IF IsFalsy(text) \/ text.type # "string"
    THEN [IdleFrame EXCEPT !.fn = fn, !.transcript = text,
                           !.pc = ReturnPc(fn)]
    ELSE [IdleFrame EXCEPT !.fn = fn, !.transcript = text, !.pc = "scan",
                           !.normalizedText = Normalize(text.str)]

\* addPhrase pushing the phrase as it is, untrimmed
AddPhraseUntrimmed(phrases, phrase) ==
    IF Len(Trim(phrase)) > 0 THEN Append(phrases, phrase) ELSE phrases

\* addPhrase(phrase), on the phrases array
AddPhrase(phrases, phrase) ==
    LET trimmed == Trim(phrase)
    IN  IF Len(trimmed) > 0 THEN Append(phrases, trimmed) ELSE phrases

\* the colon lookahead: is a quote character reached from position i
\* through whitespace only, within the characters i+1 .. i+9
LookaheadLimit == 10

RECURSIVE QuoteAheadFrom(_, _, _)
QuoteAheadFrom(s, j, end) ==
    IF j >= end THEN FALSE
    ELSE IF IsQuoteChar(CharAt(s, j)) THEN TRUE
    ELSE IF ~IsSpace(CharAt(s, j)) THEN FALSE
    ELSE QuoteAheadFrom(s, j + 1, end)

HasQuoteAhead(s, i) ==
    LET end == IF i + LookaheadLimit < Len(s) THEN i + LookaheadLimit
               ELSE Len(s)
    IN  QuoteAheadFrom(s, i + 1, end)

\* the first non-whitespace character after position i, '' when none
RECURSIVE NextNonSpaceFrom(_, _)
NextNonSpaceFrom(s, j) ==
    IF j >= Len(s) THEN EmptyChar
    ELSE IF ~IsSpace(CharAt(s, j)) THEN CharAt(s, j)
    ELSE NextNonSpaceFrom(s, j + 1)

NextNonSpace(s, i) == NextNonSpaceFrom(s, i + 1)

\* the number of iterations the colon lookahead loop makes from j
RECURSIVE QuoteAheadIterations(_, _, _)
QuoteAheadIterations(s, j, end) ==
    IF j >= end THEN 0
    ELSE IF IsQuoteChar(CharAt(s, j)) THEN 1
    ELSE IF ~IsSpace(CharAt(s, j)) THEN 1
    ELSE 1 + QuoteAheadIterations(s, j + 1, end)

\* the number of iterations of the colon lookahead at position i
ColonLookaheadIterations(s, i) ==
    LET end == IF i + LookaheadLimit < Len(s) THEN i + LookaheadLimit
               ELSE Len(s)
    IN  QuoteAheadIterations(s, i + 1, end)

\* the number of iterations the next-non-whitespace loop makes from j
RECURSIVE NextNonSpaceIterationsFrom(_, _)
NextNonSpaceIterationsFrom(s, j) ==
    IF j >= Len(s) THEN 0
    ELSE IF ~IsSpace(CharAt(s, j)) THEN 1
    ELSE 1 + NextNonSpaceIterationsFrom(s, j + 1)

NextNonSpaceIterations(s, i) == NextNonSpaceIterationsFrom(s, i + 1)

\* the split condition without the uppercase test
SplitHereNoUppercase(s, i) ==
    LET nextNonSpace == NextNonSpace(s, i)
    IN  \/ Falsy(nextNonSpace)
        \/ IsQuoteChar(nextNonSpace)
        \/ i = Len(s) - 1

\* the split at every sentence end, whatever follows
SplitHereAlways(s, i) == TRUE

\* the condition of the split at a sentence end
SplitHere(s, i) ==
    LET nextNonSpace == NextNonSpace(s, i)
    IN  \/ Falsy(nextNonSpace)
        \/ IsUpper(nextNonSpace)
        \/ IsQuoteChar(nextNonSpace)
        \/ i = Len(s) - 1

\* the closing quote of a span that followed a colon: the loop body ends
\* with `continue`
ClosesColonQuote(f, char) ==
    /\ IsQuoteChar(char)
    /\ f.inQuotes
    /\ char = f.quoteChar
    /\ f.afterColon

\* quote detection that flushes at every closing quote
HandleQuoteAlwaysFlush(f, char) ==
    IF ~IsQuoteChar(char) THEN f
    ELSE IF ~f.inQuotes
    THEN [f EXCEPT !.inQuotes = TRUE,
                   !.quoteChar = GetMatchingCloseQuote(char),
                   !.afterColon =
                       IF EndsWith(Trim(DropLast(f.currentPhrase)), ":")
                       THEN TRUE ELSE @]
    ELSE IF char = f.quoteChar
    THEN [f EXCEPT !.inQuotes = FALSE,
                   !.phrases = AddPhrase(@, f.currentPhrase),
                   !.currentPhrase = <<>>,
                   !.afterColon = FALSE]
    ELSE f

\* quote detection in which any quote character closes the open span
HandleQuoteAnyCloser(f, char) ==
    IF ~IsQuoteChar(char) THEN f
    ELSE IF ~f.inQuotes
    THEN [f EXCEPT !.inQuotes = TRUE,
                   !.quoteChar = GetMatchingCloseQuote(char),
                   !.afterColon =
                       IF EndsWith(Trim(DropLast(f.currentPhrase)), ":")
                       THEN TRUE ELSE @]
    ELSE IF f.afterColon
    THEN [f EXCEPT !.inQuotes = FALSE,
                   !.phrases = AddPhrase(@, f.currentPhrase),
                   !.currentPhrase = <<>>,
                   !.afterColon = FALSE]
    ELSE [f EXCEPT !.inQuotes = FALSE, !.quoteChar = Null]

\* quote detection that closes every span the same way, colon or not
HandleQuoteNoColonFlush(f, char) ==
    IF ~IsQuoteChar(char) THEN f
    ELSE IF ~f.inQuotes
    THEN [f EXCEPT !.inQuotes = TRUE,
                   !.quoteChar = GetMatchingCloseQuote(char),
                   !.afterColon =
                       IF EndsWith(Trim(DropLast(f.currentPhrase)), ":")
                       THEN TRUE ELSE @]
    ELSE IF char = f.quoteChar
    THEN [f EXCEPT !.inQuotes = FALSE, !.quoteChar = Null]
    ELSE f

\* quote detection whose flush at the closing quote leaves afterColon set
HandleQuoteKeepsColonFlag(f, char) ==
    IF ~IsQuoteChar(char) THEN f
    ELSE IF ~f.inQuotes
    THEN [f EXCEPT !.inQuotes = TRUE,
                   !.quoteChar = GetMatchingCloseQuote(char),
                   !.afterColon =
                       IF EndsWith(Trim(DropLast(f.currentPhrase)), ":")
                       THEN TRUE ELSE @]
    ELSE IF char = f.quoteChar
    THEN IF f.afterColon
         THEN [f EXCEPT !.inQuotes = FALSE,
                        !.phrases = AddPhrase(@, f.currentPhrase),
                        !.currentPhrase = <<>>]
         ELSE [f EXCEPT !.inQuotes = FALSE, !.quoteChar = Null]
    ELSE f

\* "Handle quote detection", char already appended to currentPhrase
HandleQuote(f, char) ==
    IF ~IsQuoteChar(char) THEN f
    ELSE IF ~f.inQuotes
    THEN LET beforeQuote == Trim(DropLast(f.currentPhrase))
         IN  [f EXCEPT !.inQuotes = TRUE,
                       !.quoteChar = GetMatchingCloseQuote(char),
                       !.afterColon = IF EndsWith(beforeQuote, ":")
                                      THEN TRUE ELSE @]
    ELSE IF char = f.quoteChar
    THEN IF f.afterColon
         THEN [f EXCEPT !.inQuotes = FALSE,
                        !.phrases = AddPhrase(@, f.currentPhrase),
                        !.currentPhrase = <<>>,
                        !.afterColon = FALSE]
         ELSE [f EXCEPT !.inQuotes = FALSE, !.quoteChar = Null]
    ELSE f

\* colon detection that flushes the words before the quotation as a phrase
HandleColonFlushes(f, char) ==
    IF char = ":" /\ ~f.inQuotes /\ HasQuoteAhead(f.normalizedText, f.i)
    THEN [f EXCEPT !.phrases = AddPhrase(@, f.currentPhrase),
                   !.currentPhrase = <<>>,
                   !.afterColon = TRUE]
    ELSE f

\* "Handle colon detection"
HandleColon(f, char) ==
    IF char = ":" /\ ~f.inQuotes /\ HasQuoteAhead(f.normalizedText, f.i)
    THEN [f EXCEPT !.afterColon = TRUE]
    ELSE f

\* sentence endings that flush the buffer without resetting it
HandleSentenceEndKeepsBuffer(f, char, nextChar) ==
    IF /\ IsSentenceEnd(char, nextChar)
       /\ ~f.inQuotes
       /\ SplitHere(f.normalizedText, f.i)
    THEN [f EXCEPT !.phrases = AddPhrase(@, f.currentPhrase),
                   !.afterColon = FALSE]
    ELSE f

\* sentence endings that split inside a quoted span too
HandleSentenceEndInQuotes(f, char, nextChar) ==
    IF IsSentenceEnd(char, nextChar) /\ SplitHere(f.normalizedText, f.i)
    THEN [f EXCEPT !.phrases = AddPhrase(@, f.currentPhrase),
                   !.currentPhrase = <<>>,
                   !.afterColon = FALSE]
    ELSE f

\* "Handle sentence endings"
HandleSentenceEnd(f, char, nextChar) ==
    IF /\ IsSentenceEnd(char, nextChar)
       /\ ~f.inQuotes
       /\ SplitHere(f.normalizedText, f.i)
    THEN [f EXCEPT !.phrases = AddPhrase(@, f.currentPhrase),
                   !.currentPhrase = <<>>,
                   !.afterColon = FALSE]
    ELSE f

\* the loop body whose `continue` skips the increment of i
LoopBodyContinueKeepsIndex(f) ==
    LET char == CharAt(f.normalizedText, f.i)
        nextChar == CharAt(f.normalizedText, f.i + 1)
        f0 == [f EXCEPT !.currentPhrase = Append(@, char)]
        f1 == HandleQuote(f0, char)
    IN  IF ClosesColonQuote(f0, char) THEN f1
        ELSE [HandleSentenceEnd(HandleColon(f1, char), char, nextChar)
                  EXCEPT !.i = @ + 1]

\* one iteration of the for loop, i++ included
LoopBody(f) ==
    LET char == CharAt(f.normalizedText, f.i)
        nextChar == CharAt(f.normalizedText, f.i + 1)
        f0 == [f EXCEPT !.currentPhrase = Append(@, char)]
        f1 == HandleQuote(f0, char)
        f2 == IF ClosesColonQuote(f0, char) THEN f1
              ELSE HandleSentenceEnd(HandleColon(f1, char), char, nextChar)
    IN  [f2 EXCEPT !.i = @ + 1]

\* the return without the flush of the remaining buffer
LoopExitNoFlush(f) == [f EXCEPT !.pc = ReturnPc(f.fn)]

\* after the loop: addPhrase(currentPhrase); return phrases
LoopExit(f) ==
    [f EXCEPT !.phrases = AddPhrase(@, f.currentPhrase),
              !.pc = ReturnPc(f.fn)]

\* the phrases joined with nothing between them
FormatPhrasesNoSeparator(phrases) == Join(phrases, <<>>)

\* the phrases joined by a single newline
FormatPhrasesSingleNewline(phrases) == Join(phrases, <<NL>>)

\* formatPhrasesWithSpacing(phrases)
FormatPhrasesWithSpacing(phrases) == Join(phrases, <<NL, NL>>)

\* the quotient truncated instead of rounded
RoundDivTruncating(a, b) == a \div b

\* Math.round(a / b), a >= 0, b > 0
RoundDiv(a, b) == (2 * a + b) \div (2 * b)

\* splitTranscriptIntoPhrases ending its result with a newline
FinishFormatTrailingNewline(f) ==
    [f EXCEPT !.formatted = FormatPhrasesWithSpacing(f.phrases) \o <<NL>>,
              !.pc = "done"]

\* the rest of splitTranscriptIntoPhrases once splitIntoPhrases returned
FinishFormat(f) ==
    [f EXCEPT !.formatted = FormatPhrasesWithSpacing(f.phrases),
              !.pc = "done"]

\* getPhraseStats counting the words of the trimmed transcript
FinishStatsTrimmedWords(f) ==
    IF f.transcript.type # "string"
    THEN [f EXCEPT !.pc = "threw"]
    ELSE LET totalWords == Len(SplitOnWhitespace(Trim(f.transcript.str)))
         IN  [f EXCEPT !.phraseCount = Len(f.phrases),
                       !.totalWords = totalWords,
                       !.avgWordsPerPhrase =
                           IF Len(f.phrases) > 0
                           THEN RoundDiv(totalWords, Len(f.phrases))
                           ELSE 0,
                       !.pc = "done"]

\* getPhraseStats reporting the word count as the phrase count
FinishStatsCountsWords(f) ==
    IF f.transcript.type # "string"
    THEN [f EXCEPT !.pc = "threw"]
    ELSE LET totalWords == Len(SplitOnWhitespace(f.transcript.str))
         IN  [f EXCEPT !.phraseCount = totalWords,
                       !.totalWords = totalWords,
                       !.avgWordsPerPhrase =
                           IF Len(f.phrases) > 0
                           THEN RoundDiv(totalWords, Len(f.phrases))
                           ELSE 0,
                       !.pc = "done"]

\* the rest of getPhraseStats once splitIntoPhrases returned:
\* transcript.split throws a TypeError unless transcript is a string
FinishStats(f) ==
    IF f.transcript.type # "string"
    THEN [f EXCEPT !.pc = "threw"]
    ELSE LET totalWords == Len(SplitOnWhitespace(f.transcript.str))
         IN  [f EXCEPT !.phraseCount = Len(f.phrases),
                       !.totalWords = totalWords,
                       !.avgWordsPerPhrase =
                           IF Len(f.phrases) > 0
                           THEN RoundDiv(totalWords, Len(f.phrases))
                           ELSE 0,
                       !.pc = "done"]

---------------------------------------------------------------------------
(* Transcripts *)

\* 'Hello world. This is a test.'
HelloWorldText ==
    <<"H", "e", "l", "l", "o", " ", "w", "o", "r", "l", "d", ".", " ", "T",
      "h", "i", "s", " ", "i", "s", " ", "a", " ", "t", "e", "s", "t",
      ".">>

\* 'Is this real? Yes it is!'
IsThisRealText ==
    <<"I", "s", " ", "t", "h", "i", "s", " ", "r", "e", "a", "l", "?", " ",
      "Y", "e", "s", " ", "i", "t", " ", "i", "s", "!">>

\* 'He said: "Hello there." Then he left.'
HeSaidText ==
    <<"H", "e", " ", "s", "a", "i", "d", ":", " ", "\"", "H", "e", "l", "l",
      "o", " ", "t", "h", "e", "r", "e", ".", "\"", " ", "T", "h", "e",
      "n", " ", "h", "e", " ", "l", "e", "f", "t", ".">>

\* 'Dr. Smith arrived.'
DrSmithText ==
    <<"D", "r", ".", " ", "S", "m", "i", "t", "h", " ", "a", "r", "r", "i",
      "v", "e", "d", ".">>

\* 'She whispered "I am not sure'
WhisperedText ==
    <<"S", "h", "e", " ", "w", "h", "i", "s", "p", "e", "r", "e", "d", " ",
      "\"", "I", " ", "a", "m", " ", "n", "o", "t", " ", "s", "u", "r",
      "e">>

\* '3.14'
PiText ==
    <<"3", ".", "1", "4">>

\* 'Mr. Smith'
MrSmithText ==
    <<"M", "r", ".", " ", "S", "m", "i", "t", "h">>

\* 'One two three. Four five.'
OneTwoThreeText ==
    <<"O", "n", "e", " ", "t", "w", "o", " ", "t", "h", "r", "e", "e", ".",
      " ", "F", "o", "u", "r", " ", "f", "i", "v", "e", ".">>

\* 'He said "Hi" and left.'
EmbeddedText ==
    <<"H", "e", " ", "s", "a", "i", "d", " ", "\"", "H", "i", "\"", " ", "a",
      "n", "d", " ", "l", "e", "f", "t", ".">>

\* 'Really?! Yes.'
ReallyText ==
    <<"R", "e", "a", "l", "l", "y", "?", "!", " ", "Y", "e", "s", ".">>

\* 'She said: “No.” ‘Oh’ he said.'
CurlyText ==
    <<"S", "h", "e", " ", "s", "a", "i", "d", ":", " ", "LDQ", "N", "o", ".",
      "RDQ", " ", "LSQ", "O", "h", "RSQ", " ", "h", "e", " ", "s", "a",
      "i", "d", ".">>

\* 'Go. "a. B. C'
UnclosedSplitText ==
    <<"G", "o", ".", " ", "\"", "a", ".", " ", "B", ".", " ", "C">>

\* 'Go. Now! Ok?'
ThreePhraseText ==
    <<"G", "o", ".", " ", "N", "o", "w", "!", " ", "O", "k", "?">>

\* 'He said: "Hello there."'
HeSaidShortText == SubSeq(HeSaidText, 1, 23)

Scenarios ==
    {HelloWorldText, IsThisRealText, HeSaidText, DrSmithText, WhisperedText,
     PiText, MrSmithText, OneTwoThreeText, EmbeddedText, ReallyText,
     CurlyText, UnclosedSplitText, ThreePhraseText, HeSaidShortText}

\* every class of character the scan tells apart, and every quote character
Alphabet ==
    {" ", "\n", ".", "?", ":", "A", "a", DQ, SQ, LDQ, RDQ, LSQ, RSQ}

\* one character of each class, for longer transcripts
CoreAlphabet == {" ", ".", ":", "A", "a", DQ}

StringsUpTo(chars, n) == UNION {[1..k -> chars] : k \in 0..n}

NonStrings == {JsNull, JsUndefined, JsNumber(42), JsNumber(0)}

\* the arguments given to splitIntoPhrases
SplitInputs ==
    {JsString(s) : s \in StringsUpTo(Alphabet, MaxLen)
                       \cup StringsUpTo(CoreAlphabet, MaxCoreLen)
                       \cup Scenarios}
        \cup NonStrings

\* the arguments given to splitTranscriptIntoPhrases and getPhraseStats
DerivedInputs ==
    {JsString(s) : s \in StringsUpTo(Alphabet, MaxDerivedLen) \cup Scenarios}
        \cup NonStrings

\* the arguments of the calls that overlap
SharedInputs ==
    {JsString(<<"a", ".", " ", "A">>), JsString(<<":", DQ, "a", DQ>>),
     JsString(<<" ", "a">>), JsNull}

Functions ==
    {"splitIntoPhrases", "splitTranscriptIntoPhrases", "getPhraseStats"}

InputsOf(fn) == IF fn = "splitIntoPhrases" THEN SplitInputs ELSE DerivedInputs

---------------------------------------------------------------------------
(* The rate limiter of the API routes.  Each route module (pages/api/v1/  *)
(* asr.js, pages/api/v1/transcribe-direct.js) declares its own            *)
(* rateLimitStore and its own copy of checkRateLimit and of the handler   *)
(* prologue.                                                              *)

Endpoints == {"/api/v1/asr", "/api/v1/transcribe-direct"}

Methods == {"POST", "GET"}

\* the keys loadApiKeys reads from the .secrets file
ValidKeys == {"key-1", "key-2"}

\* no X-API-Key header
NoKey == ""

\* what a request carries in its X-API-Key header
ApiKeys == ValidKeys \cup {"bad-key", NoKey}

\* const windowMs = 60 * 1000
WindowMs == 60 * 1000

DefaultMaxRequests == 30

\* parseInt(process.env.ASR_RATE_LIMIT_PER_MINUTE) || 30
MaxRequests == IF RateLimitEnv # 0 THEN RateLimitEnv ELSE DefaultMaxRequests

\* a key the Map does not hold
NoEntry == [has |-> FALSE, requests |-> <<>>, windowStart |-> 0]

\* new Map()
EmptyStore == [k \in ValidKeys |-> NoEntry]

\* checkRateLimit recording the timestamp of a rejected request too
CheckRateLimitCountsRejected(store, apiKey, t) ==
    LET keyData == IF store[apiKey].has THEN store[apiKey]
                   ELSE [has |-> TRUE, requests |-> <<>>, windowStart |-> t]
        kept == SelectSeq(keyData.requests, LAMBDA ts : t - ts < WindowMs)
    IN  [store |-> [store EXCEPT ![apiKey] =
                        [keyData EXCEPT !.requests = Append(kept, t)]],
         allowed |-> Len(kept) < MaxRequests,
         remaining |-> IF Len(kept) < MaxRequests
                       THEN MaxRequests - (Len(kept) + 1) ELSE 0,
         resetTime |-> t + WindowMs]

\* checkRateLimit(apiKey) at time t on the Map store: the Map after the
\* call and the object returned
CheckRateLimit(store, apiKey, t) ==
    LET keyData == IF store[apiKey].has THEN store[apiKey]
                   ELSE [has |-> TRUE, requests |-> <<>>, windowStart |-> t]
        kept == SelectSeq(keyData.requests, LAMBDA ts : t - ts < WindowMs)
    IN  IF Len(kept) >= MaxRequests
        THEN [store |-> [store EXCEPT ![apiKey] =
                             [keyData EXCEPT !.requests = kept]],
              allowed |-> FALSE,
              remaining |-> 0,
              resetTime |-> IF Len(kept) > 0 THEN kept[1] + WindowMs ELSE 0]
        ELSE [store |-> [store EXCEPT ![apiKey] =
                             [keyData EXCEPT !.requests = Append(kept, t)]],
              allowed |-> TRUE,
              remaining |-> MaxRequests - (Len(kept) + 1),
              resetTime |-> t + WindowMs]

\* validateApiKey(providedKey)
ValidateApiKey(providedKey) ==
    providedKey # NoKey /\ providedKey \in ValidKeys

\* the handler up to the rate-limit check, at time t on the Map store of
\* its module: the Map afterwards and the status answered, 0 when the
\* request passed the check and the handler went on to the upload
HandlerPrologue(store, method, apiKey, t) ==
    IF method # "POST" THEN [store |-> store, status |-> 405]
    ELSE IF apiKey = NoKey THEN [store |-> store, status |-> 401]
    ELSE IF ~ValidateApiKey(apiKey) THEN [store |-> store, status |-> 401]
    ELSE LET rateLimit == CheckRateLimit(store, apiKey, t)
         IN  [store |-> rateLimit.store,
              status |-> IF ~rateLimit.allowed THEN 429 ELSE 0]

\* no request handled yet
NoResponse == [endpoint |-> "", method |-> "", apiKey |-> NoKey, status |-> 0]

\* the times the clock reaches: steps of 1 ms and of windowMs - 1 ms
TimePoints ==
    {x \in 0..(MaxTicks * WindowMs) :
         \E a, b \in 0..MaxTicks :
             a + b <= MaxTicks /\ x = a + b * (WindowMs - 1)}

---------------------------------------------------------------------------
(* The streaming server (server-whisper.mjs): one WebSocket connection.   *)
(* An audio chunk is a record: epoch is the number of reset messages the   *)
(* connection had handled when the chunk arrived, ebml tells whether the   *)
(* chunk starts with the EBML header.  A transcript is a sequence of       *)
(* words, the string being the words joined by single spaces; a word       *)
(* records the epoch of the audio it was transcribed from, and no word     *)
(* occurs inside another.                                                  *)

\* if (chunksToProcess < 10) return null
MinNewChunks == 10

\* this.lastProcessedIndex = this.webmChunks.length - 5
OverlapChunks == 5

\* Math.max(0, prevWords.length - 10)
TailWords == 10

\* the chunks of audio Whisper returns one word for
ChunksPerWord == 5

\* the state of a connection once the 'connection' handler has run:
\* new StreamingAudioCollector() and the variables of the closure
InitConn ==
    [open |-> TRUE,
     webmChunks |-> <<>>, totalBytes |-> 0, lastProcessedIndex |-> 0,
     hasValidHeader |-> FALSE,
     timer |-> FALSE, busy |-> FALSE, chunkNr |-> 0,
     fullTranscript |-> <<>>, lastTranscriptLength |-> 0,
     runs |-> <<>>, sent |-> <<>>]

\* the reset messages handled so far: one reset_complete was sent for each
ResetsHandled(c) ==
    Len(SelectSeq(c.sent, LAMBDA m : m.type = "reset_complete"))

\* audioCollector.add(chunk)
CollectorAdd(c, chunk) ==
    [c EXCEPT !.webmChunks = Append(@, chunk),
              !.totalBytes = @ + chunk.byteLength,
              !.hasValidHeader =
                  IF ~c.hasValidHeader /\ Len(c.webmChunks) + 1 = 1
                  THEN chunk.ebml ELSE @]

\* audioCollector.reset()
CollectorReset(c) ==
    [c EXCEPT !.webmChunks = <<>>, !.totalBytes = 0,
              !.lastProcessedIndex = 0, !.hasValidHeader = FALSE]

\* ws.on('message') with binary data
OnAudio(c, chunk) ==
    [CollectorAdd(c, chunk) EXCEPT !.timer = TRUE]

ResetComplete ==
    [type |-> "reset_complete", transcript |-> <<>>,
     full_transcript |-> <<>>, chunk_number |-> 0]

\* ws.on('message') with the control message {type: 'reset'}
OnReset(c) ==
    [CollectorReset(c) EXCEPT !.fullTranscript = <<>>,
                              !.lastTranscriptLength = 0,
                              !.chunkNr = 0,
                              !.sent = Append(@, ResetComplete)]

\* audioCollector.getProcessableBuffer() returns null
NoProcessableBuffer(c) ==
    \/ Len(c.webmChunks) = 0
    \/ Len(c.webmChunks) - c.lastProcessedIndex < MinNewChunks

\* processAudio without the test of busy
ProcessAudioStartNoBusyCheck(c) ==
    IF NoProcessableBuffer(c) THEN [c EXCEPT !.busy = FALSE]
    ELSE [c EXCEPT !.busy = TRUE,
                   !.lastProcessedIndex = Len(c.webmChunks) - OverlapChunks,
                   !.runs = Append(@, [pc |-> "ffmpeg",
                                       buffer |-> c.webmChunks])]

\* processAudio up to its first await
ProcessAudioStart(c) ==
    IF c.busy THEN c
    ELSE IF NoProcessableBuffer(c) THEN [c EXCEPT !.busy = FALSE]
    ELSE [c EXCEPT !.busy = TRUE,
                   !.lastProcessedIndex = Len(c.webmChunks) - OverlapChunks,
                   !.runs = Append(@, [pc |-> "ffmpeg",
                                       buffer |-> c.webmChunks])]

\* the runs of processAudio in flight, run r taken out
WithoutRun(runs, r) ==
    SubSeq(runs, 1, r - 1) \o SubSeq(runs, r + 1, Len(runs))

ErrorMessage ==
    [type |-> "error", transcript |-> <<>>, full_transcript |-> <<>>,
     chunk_number |-> 0]

\* an await of run r rejected: catch sends the error, finally clears busy
RunThrew(c, r) ==
    [c EXCEPT !.sent = Append(@, ErrorMessage),
              !.busy = FALSE,
              !.runs = WithoutRun(@, r)]

\* convertWithFfmpeg resolved for run r
FfmpegResolved(c, r) == [c EXCEPT !.runs[r].pc = "whisper"]

\* the text Whisper returns for a buffer
Transcribe(buffer) ==
    [k \in 1..(Len(buffer) \div ChunksPerWord) |->
         [epoch |-> buffer[1].epoch, n |-> k]]

\* currentTranscript.indexOf(searchPhrase), in words, -1 when absent
IndexOfWords(current, search) ==
    LET found == {p \in 0..(Len(current) - Len(search)) :
                      SubSeq(current, p + 1, p + Len(search)) = search}
    IN  IF found = {} THEN -1 ELSE SetMin(found)

\* extractNewText(currentTranscript, previousFullTranscript)
ExtractNewText(currentTranscript, previousFullTranscript) ==
    IF Len(previousFullTranscript) = 0 THEN currentTranscript
    ELSE LET prevWords == previousFullTranscript
             first == IF Len(prevWords) - TailWords > 0
                      THEN Len(prevWords) - TailWords ELSE 0
             hits == {i \in first..(Len(prevWords) - 1) :
                          IndexOfWords(currentTranscript,
                                       SubSeq(prevWords, i + 1,
                                              Len(prevWords))) # -1}
             newStartIndex ==
                 IF hits = {} THEN 0
                 ELSE LET searchPhrase ==
                              SubSeq(prevWords, SetMin(hits) + 1,
                                     Len(prevWords))
                      IN  IndexOfWords(currentTranscript, searchPhrase)
                              + Len(searchPhrase)
         IN  IF newStartIndex > 0 /\ newStartIndex < Len(currentTranscript)
             THEN SubSeq(currentTranscript, newStartIndex + 1,
                         Len(currentTranscript))
             ELSE currentTranscript

\* transcribeWithWhisper resolved with newTranscript for run r: the rest
\* of processAudio
WhisperResolved(c, r, newTranscript) ==
    LET newText == ExtractNewText(newTranscript, c.fullTranscript)
        done == [c EXCEPT !.busy = FALSE, !.runs = WithoutRun(@, r)]
    IN  IF Len(newTranscript) > 0 /\ Len(newText) > 0
        THEN LET full == c.fullTranscript \o newText
             IN  [done EXCEPT !.fullTranscript = full,
                              !.chunkNr = @ + 1,
                              !.sent = Append(@,
                                  [type |-> "transcript",
                                   transcript |-> newText,
                                   full_transcript |-> full,
                                   chunk_number |-> c.chunkNr + 1])]
        ELSE done

---------------------------------------------------------------------------
(* Actions *)

Init ==
    /\ calls = [s \in Slots |-> IdleFrame]
    /\ now = 0
    /\ rateLimitStore = [e \in Endpoints |-> EmptyStore]
    /\ response = NoResponse
    /\ conn = InitConn

\* slot s calls fn(text)
Call(s, fn, text) ==
    /\ calls[s].pc \in {"idle", "done", "threw"}
    /\ calls' = [calls EXCEPT ![s] = EnterSplit(calls[s], fn, text)]
    /\ UNCHANGED <<rateVars, streamVars>>

\* the scan step with currentPhrase shared by all the calls, as a variable
\* of the module would be
ScanStepSharedBuffer(s) ==
    /\ calls[s].pc = "scan"
    /\ calls[s].i < Len(calls[s].normalizedText)
    /\ calls' = [t \in Slots |->
                    IF t = s THEN LoopBody(calls[s])
                    ELSE [calls[t] EXCEPT !.currentPhrase =
                                              LoopBody(calls[s]).currentPhrase]]
    /\ UNCHANGED <<rateVars, streamVars>>

\* one iteration of the scan loop of the call in slot s
ScanStep(s) ==
    /\ calls[s].pc = "scan"
    /\ calls[s].i < Len(calls[s].normalizedText)
    /\ calls' = [calls EXCEPT ![s] = LoopBody(calls[s])]
    /\ UNCHANGED <<rateVars, streamVars>>

\* the loop of the call in slot s ends and splitIntoPhrases returns
ScanEnd(s) ==
    /\ calls[s].pc = "scan"
    /\ calls[s].i >= Len(calls[s].normalizedText)
    /\ calls' = [calls EXCEPT ![s] = LoopExit(calls[s])]
    /\ UNCHANGED <<rateVars, streamVars>>

\* splitTranscriptIntoPhrases formats what splitIntoPhrases returned
Format(s) ==
    /\ calls[s].pc = "returned"
    /\ calls[s].fn = "splitTranscriptIntoPhrases"
    /\ calls' = [calls EXCEPT ![s] = FinishFormat(calls[s])]
    /\ UNCHANGED <<rateVars, streamVars>>

\* getPhraseStats counts what splitIntoPhrases returned
Stats(s) ==
    /\ calls[s].pc = "returned"
    /\ calls[s].fn = "getPhraseStats"
    /\ calls' = [calls EXCEPT ![s] = FinishStats(calls[s])]
    /\ UNCHANGED <<rateVars, streamVars>>

\* one call, of any function on any of its inputs
FirstCall ==
    /\ calls[1].pc = "idle"
    /\ \E fn \in Functions : \E text \in InputsOf(fn) : Call(1, fn, text)

Next ==
    \/ FirstCall
    \/ ScanStep(1)
    \/ ScanEnd(1)
    \/ Format(1)
    \/ Stats(1)

Spec == Init /\ [][Next]_vars

\* calls in every slot, one after the other and overlapping
AnyCall ==
    \E s \in Slots : \E fn \in Functions : \E text \in SharedInputs :
        Call(s, fn, text)

NextCalls ==
    \/ AnyCall
    \/ \E s \in Slots : ScanStep(s)
    \/ \E s \in Slots : ScanEnd(s)
    \/ \E s \in Slots : Format(s)
    \/ \E s \in Slots : Stats(s)

SpecCalls == Init /\ [][NextCalls]_vars

---------------------------------------------------------------------------
(* Two calls on the same transcript, one after the other: a derived       *)
(* function in slot 1, then splitIntoPhrases in slot 2                    *)

DerivedCall ==
    /\ calls[1].pc = "idle"
    /\ \E fn \in Functions \ {"splitIntoPhrases"} :
           \E text \in DerivedInputs : Call(1, fn, text)

SplitCallAfter ==
    /\ calls[1].pc \in {"done", "threw"}
    /\ calls[2].pc = "idle"
    /\ Call(2, "splitIntoPhrases", calls[1].transcript)

NextPair ==
    \/ DerivedCall
    \/ SplitCallAfter
    \/ \E s \in Slots : ScanStep(s)
    \/ \E s \in Slots : ScanEnd(s)
    \/ Format(1)
    \/ Stats(1)

SpecPair == Init /\ [][NextPair]_vars

---------------------------------------------------------------------------
(* One call of splitIntoPhrases run to completion: a JavaScript function  *)
(* call is synchronous, so a loop iteration that can run does run          *)

TermInputs ==
    {JsString(s) : s \in StringsUpTo(Alphabet, MaxTermLen) \cup Scenarios}
        \cup NonStrings

TermCall ==
    /\ calls[1].pc = "idle"
    /\ \E text \in TermInputs : Call(1, "splitIntoPhrases", text)

NextTerm ==
    \/ TermCall
    \/ ScanStep(1)
    \/ ScanEnd(1)

SpecTerm ==
    /\ Init
    /\ [][NextTerm]_vars
    /\ WF_vars(ScanStep(1))
    /\ WF_vars(ScanEnd(1))

---------------------------------------------------------------------------
(* Two calls of splitIntoPhrases, one after the other, on any two         *)
(* transcripts made of whitespace, a terminator and letters                *)

NormAlphabet == {" ", "\n", ".", "a", "A"}

NormInputs == {JsString(s) : s \in StringsUpTo(NormAlphabet, MaxNormLen)}

NormFirstCall ==
    /\ calls[1].pc = "idle"
    /\ \E text \in NormInputs : Call(1, "splitIntoPhrases", text)

NormSecondCall ==
    /\ calls[1].pc = "done"
    /\ calls[2].pc = "idle"
    /\ \E text \in NormInputs : Call(2, "splitIntoPhrases", text)

NextNorm ==
    \/ NormFirstCall
    \/ NormSecondCall
    \/ \E s \in Slots : ScanStep(s)
    \/ \E s \in Slots : ScanEnd(s)

SpecNorm == Init /\ [][NextNorm]_vars

---------------------------------------------------------------------------
(* splitTranscriptIntoPhrases in slot 1, then splitIntoPhrases in slot 2  *)
(* on the string it returned                                               *)

ResplitInputs ==
    {JsString(s) : s \in StringsUpTo(Alphabet, MaxResplitLen)
                       \cup StringsUpTo(CoreAlphabet, MaxCoreLen)
                       \cup Scenarios}

FormatCall ==
    /\ calls[1].pc = "idle"
    /\ \E text \in ResplitInputs :
           Call(1, "splitTranscriptIntoPhrases", text)

ResplitCall ==
    /\ calls[1].pc = "done"
    /\ calls[2].pc = "idle"
    /\ Call(2, "splitIntoPhrases", JsString(calls[1].formatted))

NextResplit ==
    \/ FormatCall
    \/ ResplitCall
    \/ \E s \in Slots : ScanStep(s)
    \/ \E s \in Slots : ScanEnd(s)
    \/ Format(1)

SpecResplit == Init /\ [][NextResplit]_vars

---------------------------------------------------------------------------
(* Requests to the rate-limited API routes *)

\* a request to endpoint e: the handler runs to its rate-limit check
Request(e, method, apiKey) ==
    /\ rateLimitStore' =
           [rateLimitStore EXCEPT
                ![e] = HandlerPrologue(rateLimitStore[e], method, apiKey,
                                       now).store]
    /\ response' =
           [endpoint |-> e, method |-> method, apiKey |-> apiKey,
            status |-> HandlerPrologue(rateLimitStore[e], method, apiKey,
                                       now).status]
    /\ UNCHANGED <<now, calls, streamVars>>

\* time passes
Tick(d) ==
    /\ now + d \in TimePoints
    /\ now' = now + d
    /\ UNCHANGED <<rateLimitStore, response, calls, streamVars>>

NextRate ==
    \/ \E e \in Endpoints : \E method \in Methods : \E apiKey \in ApiKeys :
           Request(e, method, apiKey)
    \/ \E d \in {1, WindowMs - 1} : Tick(d)

SpecRate == Init /\ [][NextRate]_vars

\* requests to /api/v1/asr alone
NextAsr ==
    \/ \E method \in Methods : \E apiKey \in ApiKeys :
           Request("/api/v1/asr", method, apiKey)
    \/ \E d \in {1, WindowMs - 1} : Tick(d)

SpecAsr == Init /\ [][NextAsr]_vars

---------------------------------------------------------------------------
(* Events of a connection of the streaming server *)

\* a binary message arrives: audioCollector.add and the start of the timer
AudioMessage ==
    /\ conn.open
    /\ Len(conn.webmChunks) < MaxChunks
    /\ \E ebml \in (IF Len(conn.webmChunks) = 0 THEN BOOLEAN ELSE {FALSE}) :
           conn' = OnAudio(conn, [epoch |-> ResetsHandled(conn),
                                  ebml |-> ebml, byteLength |-> 1])
    /\ UNCHANGED <<calls, rateVars>>

\* the control message {type: 'reset'} arrives
ResetMessage ==
    /\ conn.open
    /\ ResetsHandled(conn) < MaxResets
    /\ conn' = OnReset(conn)
    /\ UNCHANGED <<calls, rateVars>>

\* the interval timer fires and calls processAudio
TimerFires ==
    /\ conn.timer
    /\ conn.open
    /\ conn' = ProcessAudioStart(conn)
    /\ UNCHANGED <<calls, rateVars>>

\* FFmpeg ends for a run awaiting it
FfmpegDone ==
    /\ \E r \in 1..Len(conn.runs) :
           /\ conn.runs[r].pc = "ffmpeg"
           /\ \/ conn' = FfmpegResolved(conn, r)
              \/ conn' = RunThrew(conn, r)
    /\ UNCHANGED <<calls, rateVars>>

\* the Whisper API answers a run awaiting it: a text, no text or an error
WhisperDone ==
    /\ \E r \in 1..Len(conn.runs) :
           /\ conn.runs[r].pc = "whisper"
           /\ \/ conn' = WhisperResolved(conn, r,
                                         Transcribe(conn.runs[r].buffer))
              \/ conn' = WhisperResolved(conn, r, <<>>)
              \/ conn' = RunThrew(conn, r)
    /\ UNCHANGED <<calls, rateVars>>

\* the connection closes: clearInterval(timer); the final processing only
\* logs
Close ==
    /\ conn.open
    /\ conn' = [conn EXCEPT !.open = FALSE]
    /\ UNCHANGED <<calls, rateVars>>

NextStream ==
    \/ AudioMessage
    \/ ResetMessage
    \/ TimerFires
    \/ FfmpegDone
    \/ WhisperDone
    \/ Close

SpecStream == Init /\ [][NextStream]_vars

---------------------------------------------------------------------------
(* Vocabulary of the properties *)

\* splitIntoPhrases has returned in frame f
SplitReturned(f) == f.pc \in {"returned", "done"}

\* frame f is a finished call of fn
Finished(f, fn) == f.fn = fn /\ f.pc = "done"

IsString(v) == v.type = "string"

WithoutSpaces(s) == SelectSeq(s, LAMBDA c : c \notin {" ", "\n", "\t", "\r"})

\* the characters of s from position i (counted from 0) to the end
CharsFrom(s, i) == {s[k] : k \in (i + 1)..Len(s)}

\* the closing character the quote character c expects
ExpectedCloser(c) ==
    CASE c = LDQ -> RDQ
      [] c = LSQ -> RSQ
      [] OTHER -> c

\* frame f is about to scan a character, which g is the frame after
ScansChar(f, g) == f.pc = "scan" /\ f.i < Len(f.normalizedText) /\ g # f

ScannedChar(f) == f.normalizedText[f.i + 1]

\* the step from f to g flushed the buffer, the scanned character
\* included, as one phrase
FlushedAt(f, g) ==
    /\ g.phrases =
           Append(f.phrases, Trim(Append(f.currentPhrase, ScannedChar(f))))
    /\ Len(g.phrases) = Len(f.phrases) + 1
    /\ g.currentPhrase = <<>>

\* the step from f to g only appended the scanned character
AccumulatedAt(f, g) ==
    /\ g.phrases = f.phrases
    /\ g.currentPhrase = Append(f.currentPhrase, ScannedChar(f))

AsciiUpper ==
    {"A", "B", "C", "D", "E", "F", "G", "H", "I", "J", "K", "L", "M",
     "N", "O", "P", "Q", "R", "S", "T", "U", "V", "W", "X", "Y", "Z"}

\* the next non-whitespace character after position i is absent, an
\* uppercase ASCII letter or a quote character
StartsNewSentenceAfter(s, i) ==
    LET later == {k \in (i + 2)..Len(s) : s[k] # " "}
    IN  \/ later = {}
        \/ s[SetMin(later)] \in AsciiUpper
        \/ s[SetMin(later)] \in {DQ, SQ, LDQ, RDQ, LSQ, RSQ}

---------------------------------------------------------------------------
(* C1: every element of the sequence splitIntoPhrases returns is a        *)
(* non-empty string with no whitespace at its start or at its end (so it  *)
(* is not whitespace-only).                                               *)
C1_PhrasesTrimmedNonEmpty ==
    \A s \in Slots :
        SplitReturned(calls[s]) =>
            \A k \in 1..Len(calls[s].phrases) :
                LET p == calls[s].phrases[k]
                IN  /\ Len(p) > 0
                    /\ p[1] \notin {" ", "\n", "\t", "\r"}
                    /\ p[Len(p)] \notin {" ", "\n", "\t", "\r"}

\* a call returned two phrases, the second cut from a buffer that began
\* with the space after the first
C1_Witness ==
    /\ Finished(calls[1], "splitIntoPhrases")
    /\ calls[1].transcript = JsString(HelloWorldText)
    /\ Len(calls[1].phrases) = 2

(* C2: the phrases splitIntoPhrases returns for a string, concatenated in *)
(* order and stripped of whitespace, are the string stripped of           *)
(* whitespace.                                                            *)
C2_NoCharacterLost ==
    \A s \in Slots :
        (SplitReturned(calls[s]) /\ IsString(calls[s].transcript)) =>
            WithoutSpaces(Join(calls[s].phrases, <<>>))
                = WithoutSpaces(calls[s].transcript.str)

\* a call that flushed inside the loop and at the end of the loop
C2_Witness ==
    /\ Finished(calls[1], "splitIntoPhrases")
    /\ calls[1].transcript = JsString(HeSaidText)
    /\ Len(calls[1].phrases) = 2
    /\ Len(Join(calls[1].phrases, <<>>)) = Len(HeSaidText) - 1

(* C3: outside a quoted span, at a `.`, `!` or `?` whose next character  *)
(* is absent, whitespace or a quote character, the buffer is flushed as a *)
(* phrase if and only if the next non-whitespace character is absent, an  *)
(* uppercase ASCII letter or a quote character; "Hello world. This is a   *)
(* test." gives ["Hello world.", "This is a test."] and "Dr. Smith        *)
(* arrived." gives ["Dr.", "Smith arrived."].                             *)
C3_AtSentenceEnd(f, g) ==
    LET s == f.normalizedText
        next == CharAt(s, f.i + 1)
    IN  (/\ ScansChar(f, g)
         /\ ~f.inQuotes
         /\ ScannedChar(f) \in {".", "!", "?"}
         /\ (f.i + 1 = Len(s) \/ next = " "
                \/ next \in {DQ, SQ, LDQ, RDQ, LSQ, RSQ}))
        => IF StartsNewSentenceAfter(s, f.i)
           THEN FlushedAt(f, g)
           ELSE AccumulatedAt(f, g)

C3_Examples(g) ==
    /\ (Finished(g, "splitIntoPhrases")
           /\ g.transcript = JsString(HelloWorldText))
        => g.phrases = <<SubSeq(HelloWorldText, 1, 12),
                         SubSeq(HelloWorldText, 14, 28)>>
    /\ (Finished(g, "splitIntoPhrases")
           /\ g.transcript = JsString(DrSmithText))
        => g.phrases = <<SubSeq(DrSmithText, 1, 3),
                         SubSeq(DrSmithText, 5, 18)>>

C3_SplitRule ==
    [][\A s \in Slots :
           /\ C3_AtSentenceEnd(calls[s], calls'[s])
           /\ C3_Examples(calls'[s])]_vars

\* a sentence end that was not flushed (a lowercase letter follows) and
\* one that was (the text ends)
C3_Witness ==
    /\ Finished(calls[1], "splitIntoPhrases")
    /\ calls[1].normalizedText = <<"a", ".", " ", "a", ".">>
    /\ calls[1].phrases = <<<<"a", ".", " ", "a", ".">>>>

\* the quote state after the first n characters of s: whether a quoted
\* span is open, the closing character it expects and the position
\* (counted from 1) of its opening quote
RECURSIVE QuoteStateAfter(_, _)
QuoteStateAfter(s, n) ==
    IF n = 0 THEN [inside |-> FALSE, closer |-> "", openedAt |-> 0]
    ELSE LET q == QuoteStateAfter(s, n - 1)
             c == s[n]
         IN  IF c \notin {DQ, SQ, LDQ, RDQ, LSQ, RSQ} THEN q
             ELSE IF ~q.inside
             THEN [inside |-> TRUE, closer |-> ExpectedCloser(c),
                   openedAt |-> n]
             ELSE IF c = q.closer
             THEN [inside |-> FALSE, closer |-> "", openedAt |-> 0]
             ELSE q

\* the last non-whitespace character of s before position p (counted from
\* 1) is a colon, at the position this gives (0 when there is none)
ColonBefore(s, p) ==
    LET before == {k \in 1..(p - 1) : s[k] # " "}
    IN  IF before # {} /\ s[SetMax(before)] = ":" THEN SetMax(before) ELSE 0

(* C4: at the closing quote of a quoted span whose opening quote directly *)
(* followed a colon (ignoring whitespace), the whole buffer, from before  *)
(* the colon up to and including the closing quote, is flushed as one     *)
(* phrase, the colon flag is cleared and a new phrase starts;             *)
(* 'He said: "Hello there." Then he left.' gives                          *)
(* ['He said: "Hello there."', "Then he left."].                          *)
C4_AtClosingQuote(f, g) ==
    LET s == f.normalizedText
        q == QuoteStateAfter(s, f.i)
        colon == ColonBefore(s, q.openedAt)
    IN  (/\ ScansChar(f, g)
         /\ q.inside
         /\ ScannedChar(f) = q.closer
         /\ colon > 0)
        => /\ FlushedAt(f, g)
           /\ f.currentPhrase = SubSeq(s, f.i - Len(f.currentPhrase) + 1, f.i)
           /\ f.i - Len(f.currentPhrase) + 1 <= colon
           /\ ~g.afterColon
           /\ ~g.inQuotes

C4_Example(g) ==
    (Finished(g, "splitIntoPhrases") /\ g.transcript = JsString(HeSaidText))
        => g.phrases = <<SubSeq(HeSaidText, 1, 23), SubSeq(HeSaidText, 25, 37)>>

Degenerate(v) ==
    v.type # "string"
        \/ \A k \in 1..Len(v.str) : v.str[k] \in {" ", "\n", "\t", "\r"}

(* C5: splitIntoPhrases returns the empty sequence and raises no error    *)
(* when its argument is not a string, is the empty string or is a string  *)
(* of whitespace only.                                                    *)
C5_DegenerateInput ==
    \A s \in Slots :
        (calls[s].fn = "splitIntoPhrases" /\ Degenerate(calls[s].transcript))
            => /\ calls[s].pc \in {"scan", "done"}
               /\ calls[s].phrases = <<>>
               /\ calls[s].pc = "scan" => calls[s].normalizedText = <<>>

\* splitIntoPhrases returned for a string of two whitespace characters
C5_Witness ==
    /\ Finished(calls[1], "splitIntoPhrases")
    /\ calls[1].transcript = JsString(<<" ", "\n">>)
    /\ calls[1].phrases = <<>>

(* C6: for a transcript that is null, undefined, not a string or a string *)
(* that normalizes to empty, the derived functions raise no exception:    *)
(* splitTranscriptIntoPhrases returns the empty string and getPhraseStats *)
(* returns phraseCount 0, totalWords 0 and avgWordsPerPhrase 0.           *)
C6_DegenerateDerived ==
    \A s \in Slots :
        Degenerate(calls[s].transcript) =>
            /\ calls[s].pc # "threw"
            /\ Finished(calls[s], "splitTranscriptIntoPhrases")
                   => calls[s].formatted = <<>>
            /\ Finished(calls[s], "getPhraseStats")
                   => /\ calls[s].phraseCount = 0
                      /\ calls[s].totalWords = 0
                      /\ calls[s].avgWordsPerPhrase = 0

(* C7: once a quote character has opened a span whose expected closing   *)
(* character does not occur in the rest of the text, no scan step flushes *)
(* a phrase, and the buffer that holds the opening quote is returned,     *)
(* with the rest of the text, as the last phrase;                         *)
(* 'She whispered "I am not sure' gives one phrase.                       *)
C7_Step(f, g) ==
    LET s == f.normalizedText
    IN  /\ (/\ ScansChar(f, g)
            /\ f.inQuotes
            /\ f.quoteChar \notin CharsFrom(s, f.i))
           => (g.inQuotes /\ AccumulatedAt(f, g))
        /\ (/\ ScansChar(f, g)
            /\ ~f.inQuotes
            /\ ScannedChar(f) \in {DQ, SQ, LDQ, RDQ, LSQ, RSQ}
            /\ ExpectedCloser(ScannedChar(f)) \notin CharsFrom(s, f.i + 1))
           => (g.inQuotes /\ AccumulatedAt(f, g))
        /\ (/\ f.pc = "scan"
            /\ f.i = Len(s)
            /\ f.inQuotes
            /\ g # f)
           => /\ Len(f.currentPhrase) > 0
              /\ g.phrases = Append(f.phrases, Trim(f.currentPhrase))
              /\ f.currentPhrase =
                     SubSeq(s, Len(s) - Len(f.currentPhrase) + 1, Len(s))
              /\ QuoteStateAfter(s, Len(s)).openedAt
                     > Len(s) - Len(f.currentPhrase)

C7_Example(g) ==
    (Finished(g, "splitIntoPhrases") /\ g.transcript = JsString(WhisperedText))
        => g.phrases = <<WhisperedText>>

C7_UnclosedQuote ==
    [][\A s \in Slots :
           /\ C7_Step(calls[s], calls'[s])
           /\ C7_Example(calls'[s])]_vars

\* 'Go. "a. B. C': the two sentence ends after the unclosed quote did not
\* split
C7_Witness ==
    /\ Finished(calls[1], "splitIntoPhrases")
    /\ calls[1].transcript = JsString(UnclosedSplitText)
    /\ calls[1].inQuotes
    /\ calls[1].phrases =
           <<SubSeq(UnclosedSplitText, 1, 3), SubSeq(UnclosedSplitText, 5, 12)>>

(* C8: splitIntoPhrases does not split at the period of `3.14` nor at the *)
(* period of `Mr. Smith`: each of them yields exactly one phrase.         *)
C8_NoSplitAtPeriod ==
    \A s \in Slots :
        (/\ Finished(calls[s], "splitIntoPhrases")
         /\ calls[s].transcript \in {JsString(PiText), JsString(MrSmithText)})
            => Len(calls[s].phrases) = 1

(* C8, amended: `3.14` yields the one phrase `3.14`; `Mr. Smith` is split *)
(* at its period, which a space and an uppercase letter follow, and       *)
(* yields ["Mr.", "Smith"].                                               *)
C8_PeriodSplits ==
    \A s \in Slots :
        Finished(calls[s], "splitIntoPhrases") =>
            /\ calls[s].transcript = JsString(PiText)
                   => calls[s].phrases = <<PiText>>
            /\ calls[s].transcript = JsString(MrSmithText)
                   => calls[s].phrases = <<SubSeq(MrSmithText, 1, 3),
                                           SubSeq(MrSmithText, 5, 9)>>

C8_Witness ==
    /\ Finished(calls[1], "splitIntoPhrases")
    /\ calls[1].transcript = JsString(MrSmithText)
    /\ Len(calls[1].phrases) = 2

(* C9: two calls of splitIntoPhrases with the same input return the same  *)
(* phrase sequence, whatever calls were made before them or between them. *)
C9_Deterministic ==
    \A s, t \in Slots :
        (/\ SplitReturned(calls[s])
         /\ SplitReturned(calls[t])
         /\ calls[s].transcript = calls[t].transcript)
            => calls[s].phrases = calls[t].phrases

\* two finished calls on the same transcript, both with two phrases
C9_Witness ==
    /\ Finished(calls[1], "splitIntoPhrases")
    /\ Finished(calls[2], "splitIntoPhrases")
    /\ calls[1].transcript = JsString(<<"a", ".", " ", "A">>)
    /\ calls[2].transcript = calls[1].transcript
    /\ Len(calls[2].phrases) = 2

(* C10: for every string t, getPhraseStats(t).phraseCount is the length   *)
(* of splitIntoPhrases(t) and getPhraseStats(t).phrases is                *)
(* splitIntoPhrases(t), element for element.                              *)
C10_StatsCountPhrases ==
    (/\ Finished(calls[1], "getPhraseStats")
     /\ Finished(calls[2], "splitIntoPhrases")
     /\ IsString(calls[1].transcript)
     /\ calls[2].transcript = calls[1].transcript)
        => /\ calls[1].phraseCount = Len(calls[2].phrases)
           /\ Len(calls[1].phrases) = Len(calls[2].phrases)
           /\ \A k \in 1..Len(calls[2].phrases) :
                  calls[1].phrases[k] = calls[2].phrases[k]

\* getPhraseStats, then splitIntoPhrases, on a transcript of two phrases
C10_Witness ==
    /\ Finished(calls[1], "getPhraseStats")
    /\ Finished(calls[2], "splitIntoPhrases")
    /\ calls[1].transcript = JsString(OneTwoThreeText)
    /\ calls[2].transcript = calls[1].transcript
    /\ calls[1].phraseCount = 2

(* C11: avgWordsPerPhrase is totalWords / phraseCount rounded to the     *)
(* nearest integer, halves rounded up, when phraseCount > 0, and 0 when   *)
(* phraseCount = 0; "One two three. Four five." gives phraseCount 2,      *)
(* totalWords 5 and avgWordsPerPhrase 3.                                  *)
C11_AverageRounded ==
    \A s \in Slots :
        Finished(calls[s], "getPhraseStats") =>
            LET f == calls[s]
            IN  /\ f.phraseCount > 0 =>
                       /\ 2 * f.avgWordsPerPhrase * f.phraseCount - f.phraseCount
                              <= 2 * f.totalWords
                       /\ 2 * f.totalWords
                              < 2 * f.avgWordsPerPhrase * f.phraseCount
                                    + f.phraseCount
                /\ f.phraseCount = 0 => f.avgWordsPerPhrase = 0
                /\ f.transcript = JsString(OneTwoThreeText) =>
                       /\ f.phraseCount = 2
                       /\ f.totalWords = 5
                       /\ f.avgWordsPerPhrase = 3

\* the quotient 5 / 2, an exact half, was rounded up to 3
C11_Witness ==
    /\ Finished(calls[1], "getPhraseStats")
    /\ calls[1].transcript = JsString(OneTwoThreeText)
    /\ calls[1].avgWordsPerPhrase = 3

\* the number of maximal runs of non-whitespace characters of t
WordRuns(t) ==
    Cardinality({k \in 1..Len(t) :
                     /\ t[k] \notin {" ", "\n", "\t", "\r"}
                     /\ (k = 1 \/ t[k - 1] \in {" ", "\n", "\t", "\r"})})

(* C12: for a non-empty string t, totalWords is the number of maximal     *)
(* runs of non-whitespace characters of the original t, plus one if t     *)
(* begins with whitespace, plus one if t ends with whitespace.            *)
C12_TotalWords ==
    \A s \in Slots :
        (/\ Finished(calls[s], "getPhraseStats")
         /\ IsString(calls[s].transcript)
         /\ Len(calls[s].transcript.str) > 0)
            => LET t == calls[s].transcript.str
               IN  calls[s].totalWords =
                       WordRuns(t)
                         + (IF t[1] \in {" ", "\n", "\t", "\r"} THEN 1 ELSE 0)
                         + (IF t[Len(t)] \in {" ", "\n", "\t", "\r"}
                            THEN 1 ELSE 0)

\* one word between a leading and a trailing space counts as three
C12_Witness ==
    /\ Finished(calls[1], "getPhraseStats")
    /\ calls[1].transcript = JsString(<<" ", "a", " ">>)
    /\ calls[1].totalWords = 3
    /\ calls[1].phraseCount = 1

\* where phrase k starts in the joined string, counted from 0
RECURSIVE JoinOffset(_, _)
JoinOffset(phrases, k) ==
    IF k = 1 THEN 0
    ELSE JoinOffset(phrases, k - 1) + Len(phrases[k - 1]) + 2

\* text is the phrases in order with exactly two newlines between
\* consecutive phrases and nothing else
JoinedByBlankLine(text, phrases) ==
    LET n == Len(phrases)
    IN  /\ n = 0 => text = <<>>
        /\ n > 0 => Len(text) = JoinOffset(phrases, n) + Len(phrases[n])
        /\ \A k \in 1..n :
               /\ JoinOffset(phrases, k) + Len(phrases[k]) <= Len(text)
               /\ \A j \in 1..Len(phrases[k]) :
                      text[JoinOffset(phrases, k) + j] = phrases[k][j]
               /\ k < n =>
                      /\ text[JoinOffset(phrases, k) + Len(phrases[k]) + 1]
                             = "\n"
                      /\ text[JoinOffset(phrases, k) + Len(phrases[k]) + 2]
                             = "\n"

(* C13: formatPhrasesWithSpacing returns the phrases in order joined by   *)
(* exactly two newline characters: the empty string for no phrase, the    *)
(* phrase itself for one, n-1 separators for n phrases and no separator   *)
(* before the first or after the last phrase.                             *)
C13_JoinedByBlankLine ==
    \A s \in Slots :
        Finished(calls[s], "splitTranscriptIntoPhrases") =>
            /\ JoinedByBlankLine(calls[s].formatted, calls[s].phrases)
            /\ Len(calls[s].phrases) = 1 =>
                   calls[s].formatted = calls[s].phrases[1]

\* three phrases joined with two separators
C13_Witness ==
    /\ Finished(calls[1], "splitTranscriptIntoPhrases")
    /\ calls[1].transcript = JsString(ThreePhraseText)
    /\ Len(calls[1].phrases) = 3
    /\ Len(calls[1].formatted) = Len(ThreePhraseText) + 2

(* C14: for every input, splitTranscriptIntoPhrases(transcript) is       *)
(* formatPhrasesWithSpacing(splitIntoPhrases(transcript)), with nothing   *)
(* else done to the text.                                                 *)
C14_FormatOfSplit ==
    (/\ Finished(calls[1], "splitTranscriptIntoPhrases")
     /\ Finished(calls[2], "splitIntoPhrases")
     /\ calls[2].transcript = calls[1].transcript)
        => JoinedByBlankLine(calls[1].formatted, calls[2].phrases)

\* splitTranscriptIntoPhrases, then splitIntoPhrases, on a transcript of
\* two phrases
C14_Witness ==
    /\ Finished(calls[1], "splitTranscriptIntoPhrases")
    /\ Finished(calls[2], "splitIntoPhrases")
    /\ calls[1].transcript = JsString(HeSaidText)
    /\ calls[2].transcript = calls[1].transcript
    /\ Len(calls[2].phrases) = 2
    /\ Len(calls[1].formatted) = Len(HeSaidText) + 1

\* the phrases lie in s from position pos (counted from 1) on, one after
\* the other, with at most one space before each and nothing after the last
RECURSIVE Tiles(_, _, _)
Tiles(s, pos, phrases) ==
    IF Len(phrases) = 0 THEN pos > Len(s)
    ELSE LET start == IF pos <= Len(s) /\ s[pos] = " " THEN pos + 1 ELSE pos
             p == phrases[1]
         IN  /\ start + Len(p) - 1 <= Len(s)
             /\ SubSeq(s, start, start + Len(p) - 1) = p
             /\ Tiles(s, start + Len(p), Tail(phrases))

(* C15: each phrase splitIntoPhrases returns is a contiguous substring of *)
(* the whitespace-normalized text, and the phrases lie in that text at    *)
(* non-overlapping positions in strictly increasing order (they cover it, *)
(* but for one space between two phrases).                                *)
C15_PhrasesTileText ==
    \A s \in Slots :
        (SplitReturned(calls[s]) /\ IsString(calls[s].transcript)) =>
            Tiles(calls[s].normalizedText, 1, calls[s].phrases)

\* three phrases, each a substring of 'Go. Now! Ok?'
C15_Witness ==
    /\ Finished(calls[1], "splitIntoPhrases")
    /\ calls[1].transcript = JsString(ThreePhraseText)
    /\ calls[1].phrases = <<SubSeq(ThreePhraseText, 1, 3),
                            SubSeq(ThreePhraseText, 5, 8),
                            SubSeq(ThreePhraseText, 10, 12)>>

\* the frame a call in progress ends with when only its own steps run
RECURSIVE RunToEnd(_)
RunToEnd(f) ==
    IF f.pc = "scan"
    THEN IF f.i < Len(f.normalizedText)
         THEN RunToEnd(LoopBody(f))
         ELSE RunToEnd(LoopExit(f))
    ELSE IF f.pc = "returned"
    THEN IF f.fn = "getPhraseStats" THEN FinishStats(f) ELSE FinishFormat(f)
    ELSE f

\* what fn(text) ends with when it runs alone
AloneResult(fn, text) == RunToEnd(EnterSplit(IdleFrame, fn, text))

(* C16: when the steps of several calls are interleaved, each call        *)
(* returns what it returns when it runs alone: a step changes the frame   *)
(* of one call only, and at every point a call in progress is headed for  *)
(* the result of the call run alone.                                      *)
C16_CallsIsolated ==
    [][/\ \A s, t \in Slots :
              (s # t /\ calls'[s] # calls[s]) => calls'[t] = calls[t]
       /\ \A s \in Slots :
              calls'[s].pc # "idle" =>
                  RunToEnd(calls'[s])
                      = AloneResult(calls'[s].fn, calls'[s].transcript)]_vars

\* two calls on different transcripts, both in the middle of their scans
C16_Witness ==
    /\ calls[1].pc = "scan"
    /\ calls[2].pc = "scan"
    /\ calls[1].transcript = JsString(<<"a", ".", " ", "A">>)
    /\ calls[2].transcript = JsString(<<":", DQ, "a", DQ>>)
    /\ calls[1].i = 2
    /\ calls[2].i = 3
    /\ calls[1].phrases = <<<<"a", ".">>>>

(* C17: a quoted phrase that follows a colon is emitted as its own        *)
(* phrase, separate from the lead-in clause before the colon: for         *)
(* 'He said: "Hello there."' the lead-in `He said:` and the quoted text   *)
(* are different elements of the result.                                  *)
C17_QuoteIsOwnPhrase ==
    \A s \in Slots :
        (/\ Finished(calls[s], "splitIntoPhrases")
         /\ calls[s].transcript = JsString(HeSaidShortText))
            => \E j, k \in 1..Len(calls[s].phrases) :
                   /\ j # k
                   /\ calls[s].phrases[j] = SubSeq(HeSaidShortText, 1, 8)
                   /\ calls[s].phrases[k] = SubSeq(HeSaidShortText, 10, 23)

---------------------------------------------------------------------------
\* the requests carrying apiKey that endpoint e let through its rate-limit
\* check less than windowMs before now
AcceptedInWindow(e, apiKey) ==
    SelectSeq(rateLimitStore[e][apiKey].requests,
              LAMBDA ts : now - ts < WindowMs)

RECURSIVE SumOver(_, _)
SumOver(f, S) ==
    IF S = {} THEN 0
    ELSE LET x == CHOOSE y \in S : TRUE
         IN  f[x] + SumOver(f, S \ {x})

(* C18: for each API key, the requests the rate-limited endpoints        *)
(* /api/v1/asr and /api/v1/transcribe-direct together accepted (let      *)
(* through the rate-limit check, not answered 429) within the 60 seconds  *)
(* before now number at most ASR_RATE_LIMIT_PER_MINUTE.                   *)
C18_LimitPerKey ==
    \A apiKey \in ValidKeys :
        SumOver([e \in Endpoints |-> Len(AcceptedInWindow(e, apiKey))],
                Endpoints) <= MaxRequests

(* C19: at the closing quote of a quoted span whose opening quote was    *)
(* not directly preceded (ignoring whitespace) by a colon no phrase is    *)
(* flushed: the quotation stays in the buffer with the text before it,    *)
(* and the text after it is appended to the same buffer;                  *)
(* 'He said "Hi" and left.' yields one phrase.                            *)
C19_AtClosingQuote(f, g) ==
    LET s == f.normalizedText
        q == QuoteStateAfter(s, f.i)
    IN  (/\ ScansChar(f, g)
         /\ q.inside
         /\ ScannedChar(f) = q.closer
         /\ ColonBefore(s, q.openedAt) = 0)
        => /\ AccumulatedAt(f, g)
           /\ ~g.inQuotes
           /\ f.currentPhrase = SubSeq(s, f.i - Len(f.currentPhrase) + 1, f.i)
           /\ f.i - Len(f.currentPhrase) + 1 <= q.openedAt

C19_Example(g) ==
    (Finished(g, "splitIntoPhrases") /\ g.transcript = JsString(EmbeddedText))
        => g.phrases = <<EmbeddedText>>

C19_EmbeddedQuoteStays ==
    [][\A s \in Slots :
           /\ C19_AtClosingQuote(calls[s], calls'[s])
           /\ C19_Example(calls'[s])]_vars

\* the closing quote of "Hi" has just been scanned and nothing was flushed
C19_Witness ==
    /\ calls[1].pc = "scan"
    /\ calls[1].transcript = JsString(EmbeddedText)
    /\ calls[1].i = 12
    /\ ~calls[1].inQuotes
    /\ calls[1].phrases = <<>>
    /\ calls[1].currentPhrase = SubSeq(EmbeddedText, 1, 12)

(* C20: inside a quoted span, scanning a quote character other than the   *)
(* expected closing character changes none of inQuotes, quoteChar and     *)
(* afterColon and flushes nothing: the character is only appended to the  *)
(* buffer.                                                                *)
C20_OtherQuoteIgnored ==
    [][\A s \in Slots :
           LET f == calls[s]
               g == calls'[s]
           IN  (/\ ScansChar(f, g)
                /\ f.inQuotes
                /\ ScannedChar(f) \in {DQ, SQ, LDQ, RDQ, LSQ, RSQ}
                /\ ScannedChar(f) # f.quoteChar)
               => /\ g.inQuotes
                  /\ g.quoteChar = f.quoteChar
                  /\ g.afterColon = f.afterColon
                  /\ AccumulatedAt(f, g)]_vars

\* an apostrophe scanned inside a span opened by a double quote after a
\* colon
C20_Witness ==
    /\ calls[1].pc = "scan"
    /\ calls[1].normalizedText = <<":", DQ, SQ, DQ>>
    /\ calls[1].i = 3
    /\ calls[1].inQuotes
    /\ calls[1].quoteChar = DQ
    /\ calls[1].afterColon
    /\ calls[1].currentPhrase = <<":", DQ, SQ>>

---------------------------------------------------------------------------
\* the opening character of the quoted span that is open once the first k
\* characters of s are scanned, Null when none is: a quote character
\* outside a span opens one, and a span closes at the closing character
\* its opening character expects and at no other
RECURSIVE OpenerAfter(_, _)
OpenerAfter(s, k) ==
    IF k = 0 THEN Null
    ELSE LET before == OpenerAfter(s, k - 1)
             c == s[k]
         IN  IF c \notin {DQ, SQ, LDQ, RDQ, LSQ, RSQ} THEN before
             ELSE IF before = Null THEN c
             ELSE IF c = ExpectedCloser(before) THEN Null
             ELSE before

(* C21: the closing character of a quoted span is fixed by its opening    *)
(* character.  At every point of the scan a span is open exactly when a   *)
(* quote character opened one that has not met its own closing character  *)
(* since (U+201D for U+201C, U+2019 for U+2018, the character itself for  *)
(* the ASCII quotes, U+201D and U+2019), and quoteChar is then that        *)
(* closing character.                                                     *)
C21_CloserFixedByOpener ==
    \A s \in Slots :
        LET f == calls[s]
            opener == OpenerAfter(f.normalizedText, f.i)
        IN  f.pc = "scan" =>
                /\ f.inQuotes <=> opener # Null
                /\ f.inQuotes => f.quoteChar = ExpectedCloser(opener)

\* a span opened by U+201C ran past a second U+201C and closed at U+201D
C21_Witness ==
    /\ calls[1].pc = "scan"
    /\ calls[1].normalizedText = <<LDQ, LDQ, RDQ, "a">>
    /\ calls[1].i = 3
    /\ ~calls[1].inQuotes

---------------------------------------------------------------------------
(* C22: in a run of consecutive `.`, `!`, `?`, a terminator immediately   *)
(* followed by another terminator never flushes the buffer; the last      *)
(* terminator of the run, outside a quoted span, flushes it exactly when  *)
(* its next character is absent, whitespace or a quote character and the  *)
(* next non-whitespace character is absent, an uppercase ASCII letter or  *)
(* a quote character, as a single terminator does; "Really?! Yes." gives  *)
(* ["Really?!", "Yes."].                                                  *)
C22_InRun(f, g) ==
    LET s == f.normalizedText
        next == CharAt(s, f.i + 1)
        prev == CharAt(s, f.i - 1)
    IN  /\ (/\ ScansChar(f, g)
            /\ ScannedChar(f) \in {".", "!", "?"}
            /\ next \in {".", "!", "?"})
           => AccumulatedAt(f, g)
        /\ (/\ ScansChar(f, g)
            /\ ~f.inQuotes
            /\ ScannedChar(f) \in {".", "!", "?"}
            /\ prev \in {".", "!", "?"}
            /\ next \notin {".", "!", "?"})
           => IF /\ (f.i + 1 = Len(s) \/ next = " "
                        \/ next \in {DQ, SQ, LDQ, RDQ, LSQ, RSQ})
                 /\ StartsNewSentenceAfter(s, f.i)
              THEN FlushedAt(f, g)
              ELSE AccumulatedAt(f, g)

C22_TerminatorRun ==
    [][\A s \in Slots :
           /\ C22_InRun(calls[s], calls'[s])
           /\ (Finished(calls'[s], "splitIntoPhrases")
                  /\ calls'[s].transcript = JsString(ReallyText))
               => calls'[s].phrases = <<SubSeq(ReallyText, 1, 8),
                                        SubSeq(ReallyText, 10, 13)>>]_vars

\* the `?` of "Really?! Yes." was passed over and the `!` flushed
C22_Witness ==
    /\ calls[1].pc = "scan"
    /\ calls[1].normalizedText = ReallyText
    /\ calls[1].i = 8
    /\ calls[1].phrases = <<SubSeq(ReallyText, 1, 8)>>
    /\ calls[1].currentPhrase = <<>>

---------------------------------------------------------------------------
(* C23: splitIntoPhrases terminates on every input string.  Each          *)
(* iteration of the main scan visits the character at index i and moves i  *)
(* on by exactly one, the scan returns when i is the length of the         *)
(* normalized text, the colon lookahead makes at most 9 iterations and     *)
(* the next-non-whitespace scan at most as many as characters remain, and  *)
(* every call that entered the scan returns.                               *)
C23_IndexAdvances(f, g) ==
    /\ ScansChar(f, g)
       => /\ g.i = f.i + 1
          /\ g.pc = "scan"
          /\ g.normalizedText = f.normalizedText
          /\ \/ g.currentPhrase = Append(f.currentPhrase, ScannedChar(f))
             \/ g.currentPhrase = <<>>
    /\ (f.pc = "scan" /\ g.pc # "scan")
       => /\ f.i = Len(f.normalizedText)
          /\ g.pc = "done"

C23_InnerLoopsBounded(f) ==
    (f.pc = "scan" /\ f.i < Len(f.normalizedText)) =>
        LET s == f.normalizedText
            remaining == Len(s) - (f.i + 1)
        IN  /\ ColonLookaheadIterations(s, f.i) <= 9
            /\ ColonLookaheadIterations(s, f.i) <= remaining
            /\ NextNonSpaceIterations(s, f.i) <= remaining

C23_Terminates ==
    /\ [][\A s \in Slots : C23_IndexAdvances(calls[s], calls'[s])]_vars
    /\ [](\A s \in Slots : C23_InnerLoopsBounded(calls[s]))
    /\ \A s \in Slots : (calls[s].pc = "scan") ~> (calls[s].pc = "done")

\* the scan of a transcript of 37 characters, a colon lookahead and three
\* sentence ends among them, came to its end
C23_Witness ==
    /\ Finished(calls[1], "splitIntoPhrases")
    /\ calls[1].transcript = JsString(HeSaidText)
    /\ calls[1].i = 37

---------------------------------------------------------------------------
\* s with its leading and trailing whitespace removed and every other run
\* of whitespace replaced by one space: a whitespace character is kept, as
\* a space, when the character before it is not whitespace and a
\* non-whitespace character comes after it
RECURSIVE WsNormalFormFrom(_, _)
WsNormalFormFrom(s, k) ==
    LET ws == {" ", "\n", "\t", "\r"}
    IN  IF k > Len(s) THEN <<>>
        ELSE IF s[k] \notin ws THEN <<s[k]>> \o WsNormalFormFrom(s, k + 1)
        ELSE IF /\ k > 1
                /\ s[k - 1] \notin ws
                /\ \E m \in (k + 1)..Len(s) : s[m] \notin ws
             THEN <<" ">> \o WsNormalFormFrom(s, k + 1)
             ELSE WsNormalFormFrom(s, k + 1)

WsNormalForm(s) == WsNormalFormFrom(s, 1)

---------------------------------------------------------------------------
(* C25: for every string t, splitIntoPhrases applied to the string        *)
(* splitTranscriptIntoPhrases(t) returns gives the phrases                 *)
(* splitIntoPhrases(t) gives.                                              *)
C25_ResplitFixedPoint ==
    (/\ Finished(calls[1], "splitTranscriptIntoPhrases")
     /\ IsString(calls[1].transcript)
     /\ Finished(calls[2], "splitIntoPhrases")
     /\ calls[2].transcript = JsString(calls[1].formatted))
    => calls[2].phrases = calls[1].phrases

\* 'He said: "Hello there." Then he left.' was formatted as two phrases
\* around a blank line and split again into the same two
C25_Witness ==
    /\ Finished(calls[1], "splitTranscriptIntoPhrases")
    /\ calls[1].transcript = JsString(HeSaidText)
    /\ Finished(calls[2], "splitIntoPhrases")
    /\ calls[2].transcript = JsString(calls[1].formatted)
    /\ Len(calls[1].formatted) = Len(HeSaidText) + 1
    /\ Len(calls[2].phrases) = 2

---------------------------------------------------------------------------
(* C26: every phrase of the result other than the last ends with `.`,     *)
(* `!`, `?` or a quote character, and every flush during the scan (the     *)
(* buffer is reset) pushes exactly one phrase; only the flush after the    *)
(* scan can leave the phrases as they were.                                *)
C26_EndsAtDelimiter(g) ==
    SplitReturned(g) =>
        \A k \in 1..(Len(g.phrases) - 1) :
            g.phrases[k][Len(g.phrases[k])]
                \in {".", "!", "?", DQ, SQ, LDQ, RDQ, LSQ, RSQ}

C26_FlushPushes(f, g) ==
    ScansChar(f, g) =>
        IF g.currentPhrase = <<>>
        THEN /\ Len(g.phrases) = Len(f.phrases) + 1
             /\ SubSeq(g.phrases, 1, Len(f.phrases)) = f.phrases
             /\ g.phrases[Len(g.phrases)] # <<>>
        ELSE g.phrases = f.phrases

C26_FlushedPhrases ==
    [][\A s \in Slots :
           /\ C26_FlushPushes(calls[s], calls'[s])
           /\ C26_EndsAtDelimiter(calls'[s])]_vars

\* the first of two phrases ends with the quote that closed it; the
\* second was flushed at the last `.`, so the flush after the scan found
\* an empty buffer and pushed nothing
C26_Witness ==
    /\ Finished(calls[1], "splitIntoPhrases")
    /\ calls[1].transcript = JsString(HeSaidText)
    /\ Len(calls[1].phrases) = 2
    /\ calls[1].phrases[1][23] = DQ

---------------------------------------------------------------------------
\* the next non-whitespace character of s after its first n characters is
\* a quote character
QuoteComesNext(s, n) ==
    LET later == {k \in (n + 1)..Len(s) : s[k] # " "}
    IN  later # {} /\ s[SetMin(later)] \in {DQ, SQ, LDQ, RDQ, LSQ, RSQ}

(* C27: whenever the buffer is empty during the scan (at the start and    *)
(* after every flush) the scanner is outside any quoted span and          *)
(* afterColon is false; and afterColon is true only inside a quoted span   *)
(* or between a colon and the quote character that follows it, whitespace  *)
(* apart.                                                                  *)
C27_ColonFlag ==
    \A s \in Slots :
        LET f == calls[s]
        IN  /\ (f.pc = "scan" /\ f.currentPhrase = <<>>)
               => (~f.inQuotes /\ ~f.afterColon)
            /\ (f.pc \in {"scan", "returned", "done"} /\ f.afterColon)
               => \/ f.inQuotes
                  \/ /\ ColonBefore(f.normalizedText, f.i + 1) # 0
                     /\ QuoteComesNext(f.normalizedText, f.i)

\* between the colon and the quote of ': "', the flag set by the lookahead
C27_Witness ==
    /\ calls[1].pc = "scan"
    /\ calls[1].normalizedText = <<":", " ", DQ, DQ>>
    /\ calls[1].i = 2
    /\ calls[1].afterColon
    /\ ~calls[1].inQuotes

---------------------------------------------------------------------------
\* the timestamps of the record of apiKey in /api/v1/asr that are younger
\* than 60 seconds at time t
YoungAt(requests, t) == SelectSeq(requests, LAMBDA ts : t - ts < 60000)

\* a request was handled in this step and the response variable holds it
Handled == now' = now /\ response'.endpoint = "/api/v1/asr"

(* C28: in /api/v1/asr the record of an API key gains a timestamp (the    *)
(* time of the request, after the timestamps still younger than 60        *)
(* seconds) exactly when a POST request carrying that valid key passes the *)
(* rate-limit check; a GET is answered 405 and a missing or invalid key    *)
(* 401; a request answered 405, 401 or 429 adds no timestamp and leaves    *)
(* the number of young timestamps of every key as it was; and after a      *)
(* check of a key its record holds at most MaxRequests timestamps, all     *)
(* younger than 60 seconds.                                                *)
C28_Step ==
    LET old == rateLimitStore["/api/v1/asr"]
        new == rateLimitStore'["/api/v1/asr"]
        passed == /\ response'.method = "POST"
                  /\ response'.apiKey \in ValidKeys
                  /\ response'.status \notin {405, 401, 429}
    IN  Handled =>
            /\ response'.method # "POST" => response'.status = 405
            /\ (response'.method = "POST" /\ response'.apiKey \notin ValidKeys)
                   => response'.status = 401
            /\ \A k \in ValidKeys :
                   IF passed /\ response'.apiKey = k
                   THEN new[k].requests =
                            Append(YoungAt(old[k].requests, now), now)
                   ELSE /\ YoungAt(new[k].requests, now)
                               = YoungAt(old[k].requests, now)
                        /\ now \notin Range(new[k].requests)
                               \ Range(old[k].requests)
            /\ response'.status \in {405, 401} => new = old
            /\ (response'.apiKey \in ValidKeys /\ response'.method = "POST")
                   => LET r == new[response'.apiKey].requests
                      IN  /\ Len(r) <= MaxRequests
                          /\ \A n \in 1..Len(r) : now - r[n] < 60000

C28_RecordGainsOnPass == [][C28_Step]_vars

\* a third POST with key-1 inside the window was answered 429 and the
\* record of key-1 still holds the two timestamps of the requests let
\* through
C28_Witness ==
    /\ response = [endpoint |-> "/api/v1/asr", method |-> "POST",
                   apiKey |-> "key-1", status |-> 429]
    /\ rateLimitStore["/api/v1/asr"]["key-1"].requests = <<0, 1>>
    /\ now = 2

---------------------------------------------------------------------------
(* C29: per connection of the streaming server at most one processAudio   *)
(* run is in flight; busy is true exactly while one is, so it is false     *)
(* again after every run (a transcript sent, no processable buffer, an     *)
(* error thrown); and a step that leaves a run awaiting FFmpeg or Whisper  *)
(* in flight starts no other run and does not touch the index the next     *)
(* run starts from, even when enough new chunks have arrived.              *)
C29_Step ==
    /\ Len(conn'.runs) <= 1
    /\ conn'.busy <=> Len(conn'.runs) = 1
    /\ (Len(conn.runs) = 1 /\ Len(conn'.runs) = 1)
       => /\ conn'.runs[1].buffer = conn.runs[1].buffer
          /\ \/ conn'.lastProcessedIndex = conn.lastProcessedIndex
             \/ conn'.webmChunks = <<>>
    /\ Len(conn'.runs) < Len(conn.runs) => ~conn'.busy

C29_OneRunInFlight == [][C29_Step]_vars

\* a run awaits Whisper while ten chunks more than the index of the last
\* run have arrived and the timer can fire
C29_Witness ==
    /\ conn.open
    /\ conn.timer
    /\ conn.busy
    /\ Len(conn.runs) = 1
    /\ conn.runs[1].pc = "whisper"
    /\ Len(conn.webmChunks) - conn.lastProcessedIndex >= 10

\* the epoch of the audio a message sent at position m of the log may
\* carry: the number of reset_complete messages sent before it
ResetsBefore(sent, m) ==
    Len(SelectSeq(SubSeq(sent, 1, m - 1),
                  LAMBDA x : x.type = "reset_complete"))

====
